---- MODULE Spec2Model ----
(***************************************************************************)
(* Model of the buyer negotiation policy YourBuyerAgent                    *)
(* (src/negotiation_agent_gem.py): generate_opening_offer and              *)
(* respond_to_seller_offer, with the NegotiationContext they read.         *)
(*                                                                         *)
(* Python evaluates int(n * 0.58) and the like in IEEE-754 binary64: the   *)
(* literal is first rounded to a double, the product is rounded to nearest *)
(* (ties to even) and int() truncates toward zero.  IntMul below computes  *)
(* exactly that result with integer arithmetic, for |n| < 2^20.            *)
(***************************************************************************)
EXTENDS Integers, Sequences, FiniteSets, TLC

VARIABLES
    your_budget,         \* NegotiationContext.your_budget
    base_market_price,   \* NegotiationContext.product.base_market_price
    quality_grade,       \* NegotiationContext.product.quality_grade
    current_round,       \* NegotiationContext.current_round
    seller_offers,       \* NegotiationContext.seller_offers
    your_offers,         \* NegotiationContext.your_offers
    seller_price,        \* the seller_price argument of the pending/last call
    ret,                 \* what the last call of the agent returned
    pc                   \* position of the caller's loop

vars == <<your_budget, base_market_price, quality_grade, current_round,
          seller_offers, your_offers, seller_price, ret, pc>>

-----------------------------------------------------------------------------
(* Bounds of the model *)

MaxPrice == 3
MaxOffer == 3
MaxOwnLen == 1
MaxSellerLen == 2
MaxConcessionSteps == 9

-----------------------------------------------------------------------------
(* Program constants *)

EndGameRound == 8
MaxRound == 10

QualityGrades == {"A", "B", "Export"}

Min(a, b) == IF a < b THEN a ELSE b
Max(a, b) == IF a > b THEN a ELSE b
Abs(a) == IF a < 0 THEN -a ELSE a

-----------------------------------------------------------------------------
(* binary64 arithmetic of  int(n * c)                                      *)
(*                                                                         *)
(* A float constant c is described by [num, den, err, exp]: c is the       *)
(* double M / 2^exp (2^52 <= M < 2^53) that stands for the decimal num/den *)
(* and err = den * M - num * 2^exp, so that                                *)
(*     n * c = n*num/den + n*err / (den * 2^exp)       (exactly).          *)

RECURSIVE Pow2(_)
Pow2(n) == IF n <= 0 THEN 1 ELSE 2 * Pow2(n - 1)

\* The least c with q <= 2^c: the doubles just below the integer q >= 1 are
\* spaced 2^(c - 53) apart.
RECURSIVE CeilLog2(_)
CeilLog2(q) == IF q <= 1 THEN 0 ELSE 1 + CeilLog2((q + 1) \div 2)

\* int(n * c) for n >= 0.  With q, r the quotient and remainder of n*num by
\* den: when r > 0 the product is further than 1/(2*den) from any integer, so
\* rounding cannot carry it across one and the truncation is q.  When r = 0
\* the exact product is q + n*err/(den*2^exp): for err >= 0 it rounds to q or
\* just above; for err < 0 it lies below q, and rounds up to q exactly when
\* its distance from q is at most half the spacing of the doubles below q
\* (a tie goes to q, whose significand is even), else the truncation is q-1.
IntMulNat(n, c) ==
    LET q == (n * c.num) \div c.den
        r == (n * c.num) % c.den
    IN  IF r # 0 \/ c.err >= 0 \/ n = 0 THEN q
        ELSE IF 2 * n * Abs(c.err) <= c.den * Pow2(c.exp - 53 + CeilLog2(q))
             THEN q
             ELSE q - 1

\* int() truncates toward zero and rounding to nearest is symmetric in sign.
IntMul(n, c) == IF n < 0 THEN -IntMulNat(-n, c) ELSE IntMulNat(n, c)

F068 == [num |-> 68, den |-> 100, err |-> 44, exp |-> 53]
F058 == [num |-> 58, den |-> 100, err |-> -36, exp |-> 53]
F099 == [num |-> 99, den |-> 100, err |-> -8, exp |-> 53]
F085 == [num |-> 85, den |-> 100, err |-> -20, exp |-> 53]
F002 == [num |-> 2, den |-> 100, err |-> 12, exp |-> 58]

\* 0.2 + (current_round * 0.1), evaluated in binary64, for the rounds of the
\* general strategy: 0.30000000000000004, 0.4, 0.5, 0.6000000000000001, 0.7,
\* 0.8, 0.9000000000000001.
concession_rate(round) ==
    CASE round = 1 -> [num |-> 3, den |-> 10, err |-> 8, exp |-> 54]
      [] round = 2 -> [num |-> 4, den |-> 10, err |-> 4, exp |-> 54]
      [] round = 3 -> [num |-> 5, den |-> 10, err |-> 0, exp |-> 53]
      [] round = 4 -> [num |-> 6, den |-> 10, err |-> 8, exp |-> 53]
      [] round = 5 -> [num |-> 7, den |-> 10, err |-> -4, exp |-> 53]
      [] round = 6 -> [num |-> 8, den |-> 10, err |-> 4, exp |-> 53]
      [] round = 7 -> [num |-> 9, den |-> 10, err |-> 12, exp |-> 53]

-----------------------------------------------------------------------------
(* The agent *)

NoReturn == [op |-> "none", status |-> "none", price |-> 0, raised |-> FALSE]

Returned(o, s, p) == [op |-> o, status |-> s, price |-> p, raised |-> FALSE]

opening_percentage(quality) ==
    IF quality \in {"A", "Export"} THEN F068 ELSE F058

generate_opening_offer(market_price, quality, budget) ==
    LET opening_price == IntMul(market_price, opening_percentage(quality))
    IN  Returned("opening", "ongoing", Min(opening_price, budget))

last_offer(offers) ==
    IF Len(offers) > 0 THEN offers[Len(offers)] ELSE 0

\* Mutants of end_game_accepts: the budget check dropped; the check made strict.
end_game_accepts_any(price, budget) == TRUE

end_game_accepts_strict(price, budget) == price < budget

end_game_accepts(price, budget) == price <= budget

final_offer(budget, last, price) ==
    LET first == Max(IntMul(budget, F099), last + 1)
    IN  IF first > price THEN IntMul(price, F099) ELSE first

\* Mutant of early_accepts: the budget check dropped.
early_accepts_any_budget(price, market_price, budget) ==
    price <= IntMul(market_price, F085)

early_accepts(price, market_price, budget) ==
    price <= IntMul(market_price, F085) /\ price <= budget

\* Mutant of last_seller_offer: the last entry of the history instead of the
\* one before it.
last_seller_offer_last(offers, price) ==
    IF Len(offers) > 0 THEN offers[Len(offers)] ELSE price

last_seller_offer(offers, price) ==
    IF Len(offers) > 1 THEN offers[Len(offers) - 1] ELSE price

increase_amount(seller_concession, round, market_price) ==
    IF seller_concession > 0
    THEN IntMul(seller_concession, concession_rate(round))
    ELSE IntMul(market_price, F002)

counter_offer(last, increase, price, budget) ==
    Max(Min(Min(last + increase, price - 1), budget), last + 1)

respond_to_seller_offer(budget, market_price, round, s_offers, y_offers, price) ==
    LET last == last_offer(y_offers)
    IN  IF round >= EndGameRound
        THEN IF end_game_accepts(price, budget)
             THEN Returned("respond", "accepted", price)
             ELSE Returned("respond", "ongoing", final_offer(budget, last, price))
        ELSE IF early_accepts(price, market_price, budget)
             THEN Returned("respond", "accepted", price)
             ELSE LET seller_concession == last_seller_offer(s_offers, price) - price
                      increase == increase_amount(seller_concession, round, market_price)
                  IN  Returned("respond", "ongoing",
                               counter_offer(last, increase, price, budget))

-----------------------------------------------------------------------------
(* Actions: the two entry points *)

GenerateOpeningOffer ==
    /\ pc = "start"
    /\ ret' = generate_opening_offer(base_market_price, quality_grade, your_budget)
    /\ pc' = "opened"
    /\ UNCHANGED <<your_budget, base_market_price, quality_grade, current_round,
                   seller_offers, your_offers, seller_price>>

RespondToSellerOffer ==
    /\ pc = "offered"
    /\ ret' = respond_to_seller_offer(your_budget, base_market_price, current_round,
                                      seller_offers, your_offers, seller_price)
    /\ pc' = "responded"
    /\ UNCHANGED <<your_budget, base_market_price, quality_grade, current_round,
                   seller_offers, your_offers, seller_price>>

-----------------------------------------------------------------------------
(* The caller's loop: it owns the context, passes the seller's latest price *)
(* to the agent, appends what comes back and counts the rounds.             *)

SellerPrices == 1..MaxPrice

\* The opening offer goes into your_offers; the seller answers with a price.
AppendOpening ==
    /\ pc = "opened"
    /\ your_offers' = Append(your_offers, ret.price)
    /\ \E p \in SellerPrices : seller_price' = p
    /\ pc' = "offered"
    /\ UNCHANGED <<your_budget, base_market_price, quality_grade, current_round,
                   seller_offers, ret>>

\* An Accepted result ends the negotiation.
Accept ==
    /\ pc = "responded"
    /\ ret.status = "accepted"
    /\ pc' = "accepted"
    /\ UNCHANGED <<your_budget, base_market_price, quality_grade, current_round,
                   seller_offers, your_offers, seller_price, ret>>

\* An Ongoing result is appended, with the seller price it answered; the
\* round is incremented and the seller makes its next offer.
Advance ==
    /\ pc = "responded"
    /\ ret.status = "ongoing"
    /\ current_round < MaxRound
    /\ your_offers' = Append(your_offers, ret.price)
    /\ seller_offers' = Append(seller_offers, seller_price)
    /\ current_round' = current_round + 1
    /\ \E p \in SellerPrices : seller_price' = p
    /\ pc' = "offered"
    /\ UNCHANGED <<your_budget, base_market_price, quality_grade, ret>>

\* The last round ended without an Accepted result.
Timeout ==
    /\ pc = "responded"
    /\ ret.status = "ongoing"
    /\ current_round = MaxRound
    /\ your_offers' = Append(your_offers, ret.price)
    /\ seller_offers' = Append(seller_offers, seller_price)
    /\ pc' = "timeout"
    /\ UNCHANGED <<your_budget, base_market_price, quality_grade, current_round,
                   seller_price, ret>>

\* A negotiation starts in round 1 with empty histories.
Init ==
    /\ your_budget \in 1..MaxPrice
    /\ base_market_price \in 1..MaxPrice
    /\ quality_grade \in QualityGrades
    /\ current_round = 1
    /\ seller_offers = << >>
    /\ your_offers = << >>
    /\ seller_price = 0
    /\ ret = NoReturn
    /\ pc = "start"

Next ==
    \/ GenerateOpeningOffer
    \/ AppendOpening
    \/ RespondToSellerOffer
    \/ Accept
    \/ Advance
    \/ Timeout

Spec == Init /\ [][Next]_vars

-----------------------------------------------------------------------------
(* Single calls of the two entry points on inputs drawn from bounded sets.  *)

SeqsUpTo(S, n) == UNION {[1..k -> S] : k \in 0..n}

InvalidPrices == {-1, 0}

\* Inputs of generate_opening_offer: the small range, zero and negative
\* values, and the market prices and budget of the documented scenario.
OpeningBudgets == InvalidPrices \cup (1..MaxPrice) \cup {30, 60, 900}
OpeningMarkets == InvalidPrices \cup (1..MaxPrice) \cup {50, 100, 1000}

InitOpeningCall ==
    /\ your_budget \in OpeningBudgets
    /\ base_market_price \in OpeningMarkets
    /\ quality_grade \in QualityGrades
    /\ current_round = 1
    /\ seller_offers = << >>
    /\ your_offers = << >>
    /\ seller_price = 0
    /\ ret = NoReturn
    /\ pc = "start"

\* Inputs of respond_to_seller_offer over the small range: any round, any
\* two short histories, any seller price (zero and negative included).
\* respond_to_seller_offer does not read the quality grade.
InitRespondCall ==
    /\ your_budget \in 1..MaxPrice
    /\ base_market_price \in 1..MaxPrice
    /\ quality_grade = "B"
    /\ current_round \in 1..MaxRound
    /\ seller_offers \in SeqsUpTo(1..MaxOffer, MaxSellerLen)
    /\ your_offers \in SeqsUpTo(1..MaxOffer, MaxOwnLen)
    /\ seller_price \in InvalidPrices \cup (1..MaxPrice)
    /\ ret = NoReturn
    /\ pc = "offered"

Scenario(b, m, r, so, yo, p) ==
    [budget |-> b, market |-> m, round |-> r, s_offers |-> so, y_offers |-> yo,
     price |-> p]

\* Inputs of respond_to_seller_offer at the scale of real prices: the
\* documented scenarios (round 3, market 1000, budget 900, last own offer
\* 600, previous seller offer 800, seller offers 750; round 9, budget 500,
\* seller offers 450) and their neighbours on each branch.
Scenarios ==
    { Scenario(900, 1000, 3, <<800>>, <<600>>, 750),
      Scenario(900, 1000, 3, <<850, 800>>, <<600>>, 750),
      Scenario(900, 1000, 5, <<990, 990>>, <<600>>, 900),
      Scenario(900, 1000, 5, <<990, 950>>, <<600>>, 900),
      Scenario(900, 1000, 2, <<950>>, <<680>>, 850),
      Scenario(900, 1000, 2, <<950>>, <<680>>, 851),
      Scenario(900, 1000, 2, <<990, 950>>, <<680>>, 860),
      Scenario(800, 1000, 6, <<950>>, <<680>>, 850),
      Scenario(500, 1000, 4, <<950>>, <<500>>, 900),
      Scenario(500, 1000, 9, <<600>>, <<400>>, 450),
      Scenario(500, 1000, 9, <<600>>, <<400>>, 550),
      Scenario(500, 1000, 8, <<600>>, <<500>>, 550),
      Scenario(500, 1000, 10, <<600>>, <<500>>, 501) }

InitScenario ==
    \E s \in Scenarios :
        /\ your_budget = s.budget
        /\ base_market_price = s.market
        /\ quality_grade = "A"
        /\ current_round = s.round
        /\ seller_offers = s.s_offers
        /\ your_offers = s.y_offers
        /\ seller_price = s.price
        /\ ret = NoReturn
        /\ pc = "offered"

\* Inputs of respond_to_seller_offer on the counter-offer branch with seller
\* concessions of 0, 10, 20, ... in every round of the general strategy.
ConcessionOffers == {860 + 10 * k : k \in 0..MaxConcessionSteps}

InitConcession ==
    /\ your_budget = 900
    /\ base_market_price = 1000
    /\ quality_grade = "A"
    /\ current_round \in 1..(EndGameRound - 1)
    /\ seller_offers \in SeqsUpTo(ConcessionOffers, 2)
    /\ your_offers = <<600>>
    /\ seller_price = 860
    /\ ret = NoReturn
    /\ pc = "offered"

InitCall == InitOpeningCall \/ InitRespondCall \/ InitScenario \/ InitConcession

NextCall == GenerateOpeningOffer \/ RespondToSellerOffer

SpecCall == InitCall /\ [][NextCall]_vars

-----------------------------------------------------------------------------
(* Properties *)

ValidContext == your_budget > 0 /\ base_market_price > 0

OpeningReturned == pc = "opened" /\ ret.op = "opening"

RespondReturned == pc = "responded" /\ ret.op = "respond"

lastOwnOffer == last_offer(your_offers)

\* floor(num/den * n), in exact arithmetic.
Floor(n, num, den) == (n * num) \div den

RECURSIVE StrictlyIncreasing(_)
StrictlyIncreasing(s) ==
    \/ Len(s) < 2
    \/ s[1] < s[2] /\ StrictlyIncreasing(Tail(s))

\* C1: every price the policy emits satisfies 0 < price <= budget: the
\* opening offer for any budget > 0 and market price > 0, and the price of
\* respond_to_seller_offer (Accepted or Ongoing) in any round, for any
\* own-offer history and any seller price > 0.
C1_EmittedPriceWithinBudget ==
    /\ (OpeningReturned /\ ValidContext)
          => (0 < ret.price /\ ret.price <= your_budget)
    /\ (RespondReturned /\ ValidContext /\ seller_price > 0)
          => (0 < ret.price /\ ret.price <= your_budget)

\* C2: whenever respond_to_seller_offer returns Accepted, the returned price
\* is the seller_price passed to the call and is at most the budget.
C2_AcceptedAtSellerPrice ==
    (RespondReturned /\ ret.status = "accepted")
        => (ret.price = seller_price /\ ret.price <= your_budget)

C2_Witness ==
    /\ RespondReturned
    /\ ret.status = "accepted"
    /\ current_round < EndGameRound
    /\ seller_price = your_budget
    /\ Len(your_offers) > 0

\* C3: in a negotiation run by the caller's loop, for any seller behaviour,
\* each successive buyer offer is strictly higher than the previous one: the
\* own-offer history is strictly increasing in every reachable state.
C3_OffersStrictlyIncrease == StrictlyIncreasing(your_offers)

\* C4: a call in a round < 8 that does not take the early-accept branch
\* returns Ongoing with a counter-offer c, lastOwnOffer < c < sellerPrice and
\* c <= budget.
C4_CounterOfferBounds ==
    (/\ RespondReturned
     /\ ValidContext
     /\ seller_price > 0
     /\ current_round < EndGameRound
     /\ ~early_accepts(seller_price, base_market_price, your_budget))
        => /\ ret.status = "ongoing"
           /\ lastOwnOffer < ret.price
           /\ ret.price < seller_price
           /\ ret.price <= your_budget

\* C5: a call in a round >= 8 with sellerPrice > budget returns Ongoing with
\* a price strictly greater than lastOwnOffer, strictly less than sellerPrice
\* and not above the budget.
C5_FinalOfferBounds ==
    (/\ RespondReturned
     /\ ValidContext
     /\ current_round >= EndGameRound
     /\ seller_price > your_budget)
        => /\ ret.status = "ongoing"
           /\ lastOwnOffer < ret.price
           /\ ret.price < seller_price
           /\ ret.price <= your_budget

\* C6: a call in a round >= 8 with a (valid) sellerPrice <= budget returns
\* Accepted at exactly sellerPrice, whatever the market price and the two
\* histories are.
C6_EndGameAcceptsAffordable ==
    (/\ RespondReturned
     /\ seller_price > 0
     /\ current_round >= EndGameRound
     /\ seller_price <= your_budget)
        => (ret.status = "accepted" /\ ret.price = seller_price)

\* Round 9, budget 500, seller offers 450: Accepted at 450.
C6_Witness ==
    /\ RespondReturned
    /\ current_round = 9
    /\ your_budget = 500
    /\ seller_price = 450
    /\ ret.status = "accepted"
    /\ ret.price = 450

\* C7: a call in a round < 8 (with a valid sellerPrice) returns Accepted at
\* sellerPrice exactly when sellerPrice <= floor(marketPrice * 0.85) and
\* sellerPrice <= budget, and Ongoing in every other case.
C7_EarlyAcceptExactly ==
    (/\ RespondReturned
     /\ ValidContext
     /\ seller_price > 0
     /\ current_round < EndGameRound)
        => IF /\ seller_price <= Floor(base_market_price, 85, 100)
              /\ seller_price <= your_budget
           THEN ret.status = "accepted" /\ ret.price = seller_price
           ELSE ret.status = "ongoing"

\* An affordable seller price just above 85% of market is countered.
C7_Witness ==
    /\ RespondReturned
    /\ current_round < EndGameRound
    /\ base_market_price = 1000
    /\ seller_price = 851
    /\ seller_price <= your_budget
    /\ ret.status = "ongoing"

\* C8: for market price > 0 and budget > 0, generate_opening_offer returns
\* min(floor(f * base_market_price), budget), f = 0.68 for grade "A" or
\* "Export" and 0.58 otherwise; market 1000, grade "A", budget 900 gives 680.
C8_OpeningOfferValue ==
    (OpeningReturned /\ ValidContext)
        => /\ ret.price =
                Min(Floor(base_market_price,
                          IF quality_grade \in {"A", "Export"} THEN 68 ELSE 58,
                          100),
                    your_budget)
           /\ (base_market_price = 1000 /\ quality_grade = "A" /\ your_budget = 900)
                 => ret.price = 680

\* C9: generate_opening_offer with a zero or negative budget or market
\* price, and respond_to_seller_offer with a seller price <= 0, end in an
\* invariant-violation outcome and never return an offer.
C9_InvalidInputFailsFast ==
    /\ (pc = "opened" /\ ~ValidContext) => ret.raised
    /\ (pc = "responded" /\ seller_price <= 0) => ret.raised

\* C10: the claim's increase: the concession is measured from the seller
\* offer immediately preceding the current one (the last entry of a history
\* that does not yet hold sellerPrice; sellerPrice itself if there is none).
C10_increase ==
    LET previous == IF Len(seller_offers) > 0
                    THEN seller_offers[Len(seller_offers)]
                    ELSE seller_price
        sellerConcession == previous - seller_price
    IN  IF sellerConcession > 0
        THEN Floor(sellerConcession, 2 + current_round, 10)
        ELSE Floor(base_market_price, 2, 100)

C10_clamp(c) ==
    Max(Min(Min(c, seller_price - 1), your_budget), lastOwnOffer + 1)

====
